---- MODULE Spec2Model ----
(***************************************************************************)
(* Model of the VTC Tracker desktop companion (src-tauri/src):             *)
(*   telemetry.rs  TelemetryReader  (connect / cleanup / update)           *)
(*   commands.rs   start_telemetry poll/dispatch loop, verify_device_code, *)
(*                 logout                                                  *)
(*   auth.rs       AuthManager / Session                                   *)
(*   sync.rs       ApiClient::submit_job (as seen by its caller)           *)
(* The Windows build (#[cfg(windows)]) is the one modelled.                *)
(*                                                                         *)
(* Option<T> is encoded as a sequence: None is <<>>, Some(x) is <<x>>.     *)
(* A TelemetryEvent is a tuple whose head is the variant name.             *)
(***************************************************************************)
EXTENDS Integers, Sequences, FiniteSets, TLC

\* ------------------------------------------------------------------ bounds
\* Number of loop iterations explored.
MaxTicks == 3
\* Number of loop iterations explored when the reader is taken by its
\* signature alone (LoopUpdateAny).
MaxAnyTicks == 2
\* Wall-clock instants explored (the clock runs 0..MaxTime).
MaxTime == 1
\* Direct calls of the public connect() explored.
MaxConnects == 2
\* Runs of cleanup() explored: the one Drop makes, and a repeated release.
MaxCleanups == 2
\* Command invocations explored alongside the loop.
MaxCommands == 2

\* ------------------------------------------------------------- value sets
None == <<>>
Some(x) == <<x>>

\* Job identities (cargo, source, destination, started_at) a producer can show.
Jobs == {"J1", "J2"}
\* Access tokens the server can hand out.
Tokens == {"tokA", "tokB"}

\* telemetry.rs:238-244
EvConnected(g) == <<"Connected", g>>
EvDisconnected == <<"Disconnected">>
EvJobStarted == <<"JobStarted">>
EvJobCompleted(j) == <<"JobCompleted", j>>
TelemetryEvent ==
    {EvConnected("Ets2"), EvDisconnected, EvJobStarted}
        \cup {EvJobCompleted(j) : j \in Jobs}
OptionEvent == {None} \cup {Some(e) : e \in TelemetryEvent}

\* telemetry.rs:44-54
DefaultState ==
    [connected |-> FALSE, game |-> None, speed |-> 0,
     current_city |-> None, active_job |-> None]

\* HANDLE::default() (telemetry.rs:99) and std::ptr::null() (telemetry.rs:101).
NullHandle == 0
NullView == 0
\* HANDLE::is_invalid: the null handle and INVALID_HANDLE_VALUE.
IsInvalid(h) == h = NullHandle \/ h = -1

\* What the operating system answers to the next open/map attempt:
\*   "absent"  OpenFileMappingA fails (the producer is not running),
\*   "invalid" OpenFileMappingA returns Ok with an invalid handle,
\*   "nomap"   the object opens but MapViewOfFile returns a null view,
\*   "ok"      the object opens and maps.
OsAnswers == {"absent", "invalid", "nomap", "ok"}

\* The ScsHeader values (telemetry.rs:74-79) the mapped memory holds:
\* plausible (paused is 0 or 1, the SDK is active) or not.
HeaderValues == {"plausible", "implausible"}

\* Who can hold a mutex of AppState (lib.rs:18-24).
Holders == {"none", "loop", "verify", "logout", "heartbeat", "stored"}

\* ------------------------------------------------------------------ state
VARIABLES
    \* TelemetryReader (telemetry.rs:85-92)
    state, map_handle, map_view, job_started,
    \* operating system / producer; last_read is the job fields the mapped
    \* memory showed when update() last copied from the view
    os, mem_job, mem_header, os_handles, os_views, last_read,
    \* a client of the reader's public API: the direct connect() calls made
    \* so far (the OS's answer, whether a mapping was held, the value
    \* returned), the number of cleanup() runs and the release calls
    \* (UnmapViewOfFile, CloseHandle) made so far
    connect_log, cleanups, os_log,
    \* AppState's mutexes (lib.rs:18-24): the holder of each
    locks,
    \* start_telemetry task (commands.rs:176-247)
    pc, ticks, ret, event_to_emit, telemetry_data, emitted,
    \* ApiClient as seen by the loop: calls made, the call in flight, and the
    \* results returned so far
    api_calls, in_flight, results,
    \* AuthManager (auth.rs:26-28) and the clock chrono::Utc::now() reads
    session, now,
    \* SecureStorage entry "session" (storage.rs)
    stored,
    \* verify_device_code / logout invocations in progress
    verify_pc, verify_out, logout_pc, logout_token,
    \* send_heartbeat invocation in progress and its last result
    hb_pc, hb_out,
    \* the commands invoked so far, by name, in order of invocation
    commands,
    \* get_stored_session: none before the call, then whether the load
    \* succeeded and the token of the SessionResponse returned, if any
    get_out,
    \* a second start_telemetry task: its position, its ticks, the event its
    \* last update() returned and the snapshot it copied
    pc2, ticks2, ret2, data2

readerVars == <<state, map_handle, map_view, job_started>>
osVars == <<os, mem_job, mem_header, os_handles, os_views, last_read>>
loopVars == <<pc, ticks, ret, event_to_emit, telemetry_data, emitted>>
apiVars == <<api_calls, in_flight, results>>
authVars == <<session, now, stored>>
cmdVars == <<verify_pc, verify_out, logout_pc, logout_token, hb_pc, hb_out, commands,
             get_out>>
loop2Vars == <<pc2, ticks2, ret2, data2>>
clientVars == <<connect_log, cleanups, os_log>>
vars == <<readerVars, osVars, loopVars, apiVars, authVars, cmdVars, clientVars, locks,
          loop2Vars>>

\* ------------------------------------------------------- TelemetryReader
\* The identifier the operating system gives the next handle or view.
FreshId(used) == CHOOSE n \in 1..(Cardinality(used) + 1) : n \notin used

\* TelemetryReader::new (telemetry.rs:95-104)
NewReader ==
    [state |-> DefaultState, map_handle |-> NullHandle, map_view |-> NullView,
     job_started |-> FALSE]

\* connect() with the failure of OpenFileMappingA ignored: the attempt goes on
\* as if the object had opened.
connect_open_unchecked(st, h, v, oh, ov, o) ==
    IF ~IsInvalid(h) /\ v # NullView
    THEN [ok |-> TRUE, state |-> st, map_handle |-> h, map_view |-> v,
          os_handles |-> oh, os_views |-> ov]
    ELSE [ok |-> TRUE, state |-> [st EXCEPT !.connected = TRUE],
          map_handle |-> FreshId(oh), map_view |-> FreshId(ov),
          os_handles |-> oh \cup {FreshId(oh)}, os_views |-> ov \cup {FreshId(ov)}]

\* connect() with the check for an existing mapping dropped: every call opens
\* and maps again, and the handle and view held before are overwritten.
connect_reopens(st, h, v, oh, ov, o) ==
    IF o = "absent"
    THEN [ok |-> FALSE, state |-> [st EXCEPT !.connected = FALSE],
          map_handle |-> h, map_view |-> v, os_handles |-> oh, os_views |-> ov]
    ELSE IF o \in {"invalid", "nomap"}
    THEN [ok |-> FALSE, state |-> st, map_handle |-> h, map_view |-> v,
          os_handles |-> oh, os_views |-> ov]
    ELSE [ok |-> TRUE, state |-> [st EXCEPT !.connected = TRUE],
          map_handle |-> FreshId(oh), map_view |-> FreshId(ov),
          os_handles |-> oh \cup {FreshId(oh)}, os_views |-> ov \cup {FreshId(ov)}]

\* connect() with the CloseHandle of the failed-map branch dropped: the handle
\* just opened stays open.
connect_nomap_leak(st, h, v, oh, ov, o) ==
    IF ~IsInvalid(h) /\ v # NullView
    THEN [ok |-> TRUE, state |-> st, map_handle |-> h, map_view |-> v,
          os_handles |-> oh, os_views |-> ov]
    ELSE IF o = "absent"
    THEN [ok |-> FALSE, state |-> [st EXCEPT !.connected = FALSE],
          map_handle |-> h, map_view |-> v, os_handles |-> oh, os_views |-> ov]
    ELSE IF o = "invalid"
    THEN [ok |-> FALSE, state |-> st, map_handle |-> h, map_view |-> v,
          os_handles |-> oh, os_views |-> ov]
    ELSE IF o = "nomap"
    THEN [ok |-> FALSE, state |-> st, map_handle |-> h, map_view |-> v,
          os_handles |-> oh \cup {FreshId(oh)}, os_views |-> ov]
    ELSE [ok |-> TRUE, state |-> [st EXCEPT !.connected = TRUE],
          map_handle |-> FreshId(oh), map_view |-> FreshId(ov),
          os_handles |-> oh \cup {FreshId(oh)}, os_views |-> ov \cup {FreshId(ov)}]

\* connect() storing the handle and view without setting state.connected.
connect_flag_unset(st, h, v, oh, ov, o) ==
    IF ~IsInvalid(h) /\ v # NullView
    THEN [ok |-> TRUE, state |-> st, map_handle |-> h, map_view |-> v,
          os_handles |-> oh, os_views |-> ov]
    ELSE IF o = "absent"
    THEN [ok |-> FALSE, state |-> [st EXCEPT !.connected = FALSE],
          map_handle |-> h, map_view |-> v, os_handles |-> oh, os_views |-> ov]
    ELSE IF o \in {"invalid", "nomap"}
    THEN [ok |-> FALSE, state |-> st, map_handle |-> h, map_view |-> v,
          os_handles |-> oh, os_views |-> ov]
    ELSE [ok |-> TRUE, state |-> st,
          map_handle |-> FreshId(oh), map_view |-> FreshId(ov),
          os_handles |-> oh \cup {FreshId(oh)}, os_views |-> ov \cup {FreshId(ov)}]

\* TelemetryReader::connect (telemetry.rs:110-159).  The result carries the
\* return value (ok), the reader's fields and the process's open handles/views.
connect(st, h, v, oh, ov, o) ==
    IF ~IsInvalid(h) /\ v # NullView
    THEN [ok |-> TRUE, state |-> st, map_handle |-> h, map_view |-> v,
          os_handles |-> oh, os_views |-> ov]
    ELSE IF o = "absent"
    THEN [ok |-> FALSE, state |-> [st EXCEPT !.connected = FALSE],
          map_handle |-> h, map_view |-> v, os_handles |-> oh, os_views |-> ov]
    ELSE IF o = "invalid"
    THEN [ok |-> FALSE, state |-> st, map_handle |-> h, map_view |-> v,
          os_handles |-> oh, os_views |-> ov]
    ELSE LET handle == FreshId(oh) IN
         IF o = "nomap"
         THEN \* CloseHandle(handle); return false
              [ok |-> FALSE, state |-> st, map_handle |-> h, map_view |-> v,
               os_handles |-> (oh \cup {handle}) \ {handle}, os_views |-> ov]
         ELSE LET view == FreshId(ov) IN
              [ok |-> TRUE, state |-> [st EXCEPT !.connected = TRUE],
               map_handle |-> handle, map_view |-> view,
               os_handles |-> oh \cup {handle}, os_views |-> ov \cup {view}]

\* update() announcing the connection on every tick of a connected reader.
update_connected_each_tick(st, h, v, oh, ov, o) ==
    IF st.connected
    THEN [ret |-> Some(EvConnected("Ets2")), state |-> st,
          map_handle |-> h, map_view |-> v, os_handles |-> oh, os_views |-> ov]
    ELSE IF o = "ok"
    THEN [ret |-> Some(EvConnected("Ets2")),
          state |-> [st EXCEPT !.connected = TRUE, !.game = Some("Ets2")],
          map_handle |-> FreshId(oh), map_view |-> FreshId(ov),
          os_handles |-> oh \cup {FreshId(oh)}, os_views |-> ov \cup {FreshId(ov)}]
    ELSE [ret |-> None, state |-> [st EXCEPT !.connected = FALSE],
          map_handle |-> h, map_view |-> v, os_handles |-> oh, os_views |-> ov]

\* update() copying a value it read from the mapped memory into the state.
update_exposes_speed(st, h, v, oh, ov, o) ==
    IF st.connected
    THEN [ret |-> None, state |-> [st EXCEPT !.speed = 1],
          map_handle |-> h, map_view |-> v, os_handles |-> oh, os_views |-> ov]
    ELSE IF o = "ok"
    THEN [ret |-> Some(EvConnected("Ets2")),
          state |-> [st EXCEPT !.connected = TRUE, !.game = Some("Ets2")],
          map_handle |-> FreshId(oh), map_view |-> FreshId(ov),
          os_handles |-> oh \cup {FreshId(oh)}, os_views |-> ov \cup {FreshId(ov)}]
    ELSE [ret |-> None, state |-> [st EXCEPT !.connected = FALSE],
          map_handle |-> h, map_view |-> v, os_handles |-> oh, os_views |-> ov]

\* TelemetryReader::update (telemetry.rs:176-217).  ret is the returned
\* Option<TelemetryEvent>.  The connected branch copies the header out of the
\* view and interprets nothing of it.
update(st, h, v, oh, ov, o) ==
    IF st.connected
    THEN IF v = NullView
         THEN [ret |-> Some(EvDisconnected),
               state |-> [st EXCEPT !.connected = FALSE],
               map_handle |-> h, map_view |-> v,
               os_handles |-> oh, os_views |-> ov]
         ELSE [ret |-> None, state |-> st, map_handle |-> h, map_view |-> v,
               os_handles |-> oh, os_views |-> ov]
    ELSE LET c == connect(st, h, v, oh, ov, o) IN
         IF c.ok
         THEN [ret |-> Some(EvConnected("Ets2")),
               state |-> [c.state EXCEPT !.game = Some("Ets2")],
               map_handle |-> c.map_handle, map_view |-> c.map_view,
               os_handles |-> c.os_handles, os_views |-> c.os_views]
         ELSE [ret |-> None, state |-> c.state,
               map_handle |-> c.map_handle, map_view |-> c.map_view,
               os_handles |-> c.os_handles, os_views |-> c.os_views]

\* cleanup() releasing the view and the handle without resetting the fields.
cleanup_no_reset(h, v, oh, ov, log) ==
    LET unmap == v # NullView
        close == ~IsInvalid(h)
        log1 == IF unmap THEN Append(log, <<"UnmapViewOfFile", v>>) ELSE log
        log2 == IF close THEN Append(log1, <<"CloseHandle", h>>) ELSE log1
    IN [map_view |-> v, map_handle |-> h,
        os_views |-> IF unmap THEN ov \ {v} ELSE ov,
        os_handles |-> IF close THEN oh \ {h} ELSE oh,
        os_log |-> log2]

\* TelemetryReader::cleanup (telemetry.rs:163-174), run by Drop
\* (telemetry.rs:226-230).  log is the sequence of release calls made.
cleanup(h, v, oh, ov, log) ==
    LET unmap == v # NullView
        close == ~IsInvalid(h)
        log1 == IF unmap THEN Append(log, <<"UnmapViewOfFile", v>>) ELSE log
        log2 == IF close THEN Append(log1, <<"CloseHandle", h>>) ELSE log1
    IN [map_view |-> IF unmap THEN NullView ELSE v,
        map_handle |-> IF close THEN NullHandle ELSE h,
        os_views |-> IF unmap THEN ov \ {v} ELSE ov,
        os_handles |-> IF close THEN oh \ {h} ELSE oh,
        os_log |-> log2]

\* ------------------------------------------------------------ AuthManager
\* is_expired with the comparison made strict: a session is still usable at
\* the very instant it expires.
is_expired_after(s, t) == t > s.expires_at

\* Session::is_expired (auth.rs:20-22)
is_expired(s, t) == t >= s.expires_at

\* AuthManager::get_session (auth.rs:43-52)
get_session(sess, t) ==
    IF sess # None /\ ~is_expired(sess[1], t) THEN sess ELSE None

\* AuthManager::get_access_token (auth.rs:55-57)
get_access_token(sess, t) ==
    IF get_session(sess, t) # None THEN Some(sess[1].access_token) ELSE None

\* AuthManager::is_authenticated (auth.rs:60-62)
is_authenticated(sess, t) == get_session(sess, t) # None

\* Expiry instants a verify response can carry.
ExpiryTimes == 1..MaxTime
Sessions == [access_token : Tokens, expires_at : ExpiryTimes]

\* ------------------------------------------------------------------- Init
InitCommon ==
    /\ state = NewReader.state
    /\ map_handle = NewReader.map_handle
    /\ map_view = NewReader.map_view
    /\ job_started = NewReader.job_started
    /\ os = "absent"
    /\ mem_job = None
    /\ mem_header = "plausible"
    /\ connect_log = <<>>
    /\ cleanups = 0
    /\ os_log = <<>>
    /\ locks = [telemetry |-> "none", auth |-> "none"]
    /\ hb_pc = "idle"
    /\ hb_out = "none"
    /\ commands = <<>>
    /\ get_out = None
    /\ pc2 = "off"
    /\ ticks2 = 0
    /\ ret2 = None
    /\ data2 = None
    /\ os_handles = {}
    /\ os_views = {}
    /\ last_read = None
    /\ pc = "off"
    /\ ticks = 0
    /\ ret = None
    /\ event_to_emit = None
    /\ telemetry_data = None
    /\ emitted = <<>>
    /\ api_calls = <<>>
    /\ in_flight = None
    /\ results = <<>>
    /\ session = None
    /\ now = 0
    /\ verify_pc = "idle"
    /\ verify_out = "none"
    /\ logout_pc = "idle"
    /\ logout_token = None

\* The state after construction (main.rs:36-41) on a machine where nothing
\* is stored.
Init == InitCommon /\ stored = None

\* The state after construction when an earlier run may have left a session
\* in the secure storage (storage.rs:39-51).
InitAuth == InitCommon /\ stored \in {None} \cup {Some(x) : x \in Sessions}

\* ------------------------------------------------- operating system steps
\* The producer starts or exits, or the OS starts refusing the open or map.
\* A view that is already mapped stays mapped.
OsChange ==
    /\ \E o \in OsAnswers \ {os} : os' = o
    /\ UNCHANGED <<mem_job, mem_header, os_handles, os_views, last_read>>
    /\ UNCHANGED <<readerVars, loopVars, apiVars, authVars, cmdVars, clientVars, locks>>
    /\ UNCHANGED loop2Vars

\* The running producer shows, changes or clears its job fields, or writes
\* other header values.
ProducerWrite ==
    /\ os = "ok"
    /\ \E j \in {None} \cup {Some(x) : x \in Jobs}, hd \in HeaderValues :
        /\ <<j, hd>> # <<mem_job, mem_header>>
        /\ mem_job' = j
        /\ mem_header' = hd
    /\ UNCHANGED <<os, os_handles, os_views, last_read>>
    /\ UNCHANGED <<readerVars, loopVars, apiVars, authVars, cmdVars, clientVars, locks>>
    /\ UNCHANGED loop2Vars

\* ------------------------------------------------------ AppState's mutexes
\* A MutexGuard of state.telemetry kept past the block that took it.
TelemetryGuard_held(l, who) == [l EXCEPT !.telemetry = who]

\* The MutexGuard of state.telemetry, taken by who, is dropped at the end of
\* the if-let block that locked it (commands.rs:187-192).
TelemetryGuard(l, who) == [l EXCEPT !.telemetry = "none"]

\* The MutexGuard of state.auth, taken by who, is dropped at the end of the
\* closure or block that used it (commands.rs:52-54, 100-102, 136-138,
\* 146-148, 215-217, 255-257).
AuthGuard(l, who) == [l EXCEPT !.auth = "none"]

\* get_access_token with the expired session purged on the way.
SessionAfterRead_purged(sess, t) ==
    IF sess # None /\ t >= sess[1].expires_at THEN None ELSE sess

\* AuthManager::get_access_token / get_session take &self (auth.rs:43-57):
\* the session is left as it is, expired or not.
SessionAfterRead(sess, t) == sess

\* -------------------------------------------- start_telemetry (the loop)
\* commands.rs:158-250: spawn the task.
StartTelemetry ==
    /\ pc = "off"
    /\ pc' = "tick"
    /\ UNCHANGED <<ticks, ret, event_to_emit, telemetry_data, emitted>>
    /\ UNCHANGED <<readerVars, osVars, apiVars, authVars, cmdVars, clientVars, locks>>
    /\ UNCHANGED loop2Vars

\* The loop with event_to_emit declared outside the iteration: an earlier
\* tick's event survives a tick that returns none.
TickEvent_kept(previous, r) == IF r # None THEN r ELSE previous

\* commands.rs:183-190: event_to_emit starts as None in every iteration and
\* takes the event update() returned, if any.
TickEvent(previous, r) == IF r # None THEN r ELSE None

\* The loop publishing the copy it made first instead of a fresh one.
Snapshot_stale(previous, st) == IF previous # None THEN previous ELSE Some(st)

\* commands.rs:184-191: telemetry_data starts as None in every iteration and
\* takes a clone of the reader's state after update().
Snapshot(previous, st) == Some(st)

\* commands.rs:180-192: interval.tick(), then under the telemetry mutex
\* update() and the copy of the state.
LoopUpdate ==
    /\ pc = "tick"
    /\ ticks < MaxTicks
    /\ cleanups = 0
    /\ locks.telemetry = "none"
    /\ LET u == update(state, map_handle, map_view, os_handles, os_views, os) IN
        /\ state' = u.state
        /\ map_handle' = u.map_handle
        /\ map_view' = u.map_view
        /\ os_handles' = u.os_handles
        /\ os_views' = u.os_views
        /\ ret' = u.ret
        /\ event_to_emit' = TickEvent(event_to_emit, u.ret)
        /\ telemetry_data' = Snapshot(telemetry_data, u.state)
    /\ last_read' = IF state.connected /\ map_view # NullView THEN mem_job ELSE last_read
    /\ locks' = TelemetryGuard(locks, "loop")
    /\ ticks' = ticks + 1
    /\ pc' = "emit"
    /\ UNCHANGED <<job_started, os, mem_job, mem_header, emitted>>
    /\ UNCHANGED <<clientVars, loop2Vars>>
    /\ UNCHANGED loop2Vars
    /\ UNCHANGED <<apiVars, authVars, cmdVars>>

\* commands.rs:195-199: emit "telemetry_update" with the copied state.
LoopEmit ==
    /\ pc = "emit"
    /\ emitted' = IF telemetry_data # None
                  THEN Append(emitted, [tick |-> ticks, data |-> telemetry_data[1]])
                  ELSE emitted
    /\ pc' = "handle"
    /\ UNCHANGED <<ticks, ret, event_to_emit, telemetry_data>>
    /\ UNCHANGED <<readerVars, osVars, apiVars, authVars, cmdVars, clientVars, locks>>
    /\ UNCHANGED loop2Vars

\* The dispatch with the token check dropped: a completed job is submitted
\* with an empty token when the session is missing or expired.
Dispatch_no_token_check(ev, tok) ==
    IF ev # None /\ ev[1][1] = "JobCompleted"
    THEN Some([op |-> "submit_job",
               token |-> IF tok # None THEN tok[1] ELSE "", job |-> ev[1][2]])
    ELSE None

\* commands.rs:202-245: the submission the match on the event makes, if any.
Dispatch(ev, tok) ==
    IF ev # None /\ ev[1][1] = "JobCompleted" /\ tok # None
    THEN Some([op |-> "submit_job", token |-> tok[1], job |-> ev[1][2]])
    ELSE None

\* commands.rs:210: the arm that reads the token under the auth mutex.
ReadsToken(ev) == ev # None /\ ev[1][1] = "JobCompleted"

\* commands.rs:202-245 up to the await of submit_job.
LoopHandle ==
    /\ pc = "handle"
    /\ ReadsToken(event_to_emit) => locks.auth = "none"
    /\ LET call == Dispatch(event_to_emit, get_access_token(session, now)) IN
        /\ in_flight' = call
        /\ api_calls' = IF call # None
                        THEN Append(api_calls, call[1] @@ [tick |-> ticks])
                        ELSE api_calls
        /\ pc' = IF call # None THEN "await" ELSE "tick"
    /\ session' = IF ReadsToken(event_to_emit)
                  THEN SessionAfterRead(session, now) ELSE session
    /\ locks' = IF ReadsToken(event_to_emit) THEN AuthGuard(locks, "loop") ELSE locks
    /\ UNCHANGED <<now, stored>>
    /\ UNCHANGED <<ticks, ret, event_to_emit, telemetry_data, emitted, results>>
    /\ UNCHANGED <<readerVars, osVars, cmdVars, clientVars>>
    /\ UNCHANGED loop2Vars

\* ApiClient::submit_job's outcomes (sync.rs:84-112).
SubmitResults == {"Ok", "Network", "Server", "Parse"}

\* The loop retrying a failed submission instead of logging it.
SubmitOutcome_retry(r, calls, call, t) ==
    IF r = "Ok"
    THEN [pc |-> "tick", api_calls |-> calls, in_flight |-> None]
    ELSE [pc |-> "await", api_calls |-> Append(calls, call[1] @@ [tick |-> t]),
          in_flight |-> call]

\* commands.rs:238-241: what the loop does with submit_job's result r for the
\* call in flight: an error is logged, and the iteration ends either way.
SubmitOutcome(r, calls, call, t) ==
    [pc |-> "tick", api_calls |-> calls, in_flight |-> None]

\* commands.rs:238-240: submit_job(..).await completes.
SubmitReturn ==
    /\ pc = "await"
    /\ \E r \in SubmitResults :
        LET o == SubmitOutcome(r, api_calls, in_flight, ticks) IN
        /\ results' = Append(results, r)
        /\ in_flight' = o.in_flight
        /\ api_calls' = o.api_calls
        /\ pc' = o.pc
    /\ UNCHANGED <<ticks, ret, event_to_emit, telemetry_data, emitted>>
    /\ UNCHANGED <<readerVars, osVars, authVars, cmdVars, clientVars, locks>>
    /\ UNCHANGED loop2Vars

\* ------------------------------------------ a second start_telemetry task
\* commands.rs:158-250: start_telemetry invoked again spawns another task over
\* the same AppState; nothing records that one is running.
StartTelemetry2 ==
    /\ pc # "off"
    /\ pc2 = "off"
    /\ pc2' = "tick"
    /\ UNCHANGED <<ticks2, ret2, data2>>
    /\ UNCHANGED <<readerVars, osVars, loopVars, apiVars, authVars, cmdVars, clientVars, locks>>

\* commands.rs:180-192 in the second task: update() and the copy of the
\* state, under the telemetry mutex.
Loop2Update ==
    /\ pc2 = "tick"
    /\ ticks2 < MaxTicks
    /\ cleanups = 0
    /\ locks.telemetry = "none"
    /\ LET u == update(state, map_handle, map_view, os_handles, os_views, os) IN
        /\ state' = u.state
        /\ map_handle' = u.map_handle
        /\ map_view' = u.map_view
        /\ os_handles' = u.os_handles
        /\ os_views' = u.os_views
        /\ ret2' = u.ret
        /\ data2' = Snapshot(data2, u.state)
    /\ last_read' = IF state.connected /\ map_view # NullView THEN mem_job ELSE last_read
    /\ locks' = TelemetryGuard(locks, "loop")
    /\ ticks2' = ticks2 + 1
    /\ pc2' = "emit"
    /\ UNCHANGED <<job_started, os, mem_job, mem_header>>
    /\ UNCHANGED <<loopVars, apiVars, authVars, cmdVars, clientVars>>

\* commands.rs:195-199 in the second task: emit "telemetry_update".
Loop2Emit ==
    /\ pc2 = "emit"
    /\ emitted' = IF data2 # None
                  THEN Append(emitted, [tick |-> ticks2, data |-> data2[1]])
                  ELSE emitted
    /\ pc2' = "handle"
    /\ UNCHANGED <<pc, ticks, ret, event_to_emit, telemetry_data>>
    /\ UNCHANGED <<ticks2, ret2, data2>>
    /\ UNCHANGED <<readerVars, osVars, apiVars, authVars, cmdVars, clientVars, locks>>

\* commands.rs:202-245 in the second task, for the events the reader as
\* shipped returns: none of them is submitted.
Loop2Handle ==
    /\ pc2 = "handle"
    /\ Dispatch(ret2, get_access_token(session, now)) = None
    /\ pc2' = "tick"
    /\ UNCHANGED <<ticks2, ret2, data2>>
    /\ UNCHANGED <<readerVars, osVars, loopVars, apiVars, authVars, cmdVars, clientVars, locks>>

\* ------------------------------------- the reader's public API, and Drop
\* telemetry.rs:110: a direct call of the public connect().
CallConnect ==
    /\ Len(connect_log) < MaxConnects
    /\ cleanups = 0
    /\ locks.telemetry = "none"
    /\ LET c == connect(state, map_handle, map_view, os_handles, os_views, os) IN
        /\ state' = c.state
        /\ map_handle' = c.map_handle
        /\ map_view' = c.map_view
        /\ os_handles' = c.os_handles
        /\ os_views' = c.os_views
        /\ connect_log' = Append(connect_log,
                [os |-> os,
                 held |-> ~IsInvalid(map_handle) /\ map_view # NullView,
                 ok |-> c.ok])
    /\ UNCHANGED <<job_started, os, mem_job, mem_header, last_read>>
    /\ UNCHANGED <<cleanups, os_log>>
    /\ UNCHANGED <<loopVars, apiVars, authVars, cmdVars, locks, loop2Vars>>

\* telemetry.rs:226-230: Drop runs cleanup(); a further run is a second
\* release of the same reader.
Cleanup ==
    /\ cleanups < MaxCleanups
    /\ locks.telemetry = "none"
    /\ LET c == cleanup(map_handle, map_view, os_handles, os_views, os_log) IN
        /\ map_handle' = c.map_handle
        /\ map_view' = c.map_view
        /\ os_handles' = c.os_handles
        /\ os_views' = c.os_views
        /\ os_log' = c.os_log
    /\ cleanups' = cleanups + 1
    /\ UNCHANGED <<state, job_started, os, mem_job, mem_header, last_read>>
    /\ UNCHANGED connect_log
    /\ UNCHANGED <<loopVars, apiVars, authVars, cmdVars, locks, loop2Vars>>

\* ---------------------------------------------------------------- clock
\* Time passes between two reads of chrono::Utc::now().
Clock ==
    /\ now < MaxTime
    /\ now' = now + 1
    /\ UNCHANGED <<session, stored>>
    /\ UNCHANGED <<readerVars, osVars, loopVars, apiVars, cmdVars, clientVars, locks>>
    /\ UNCHANGED loop2Vars

\* --------------------------------------------------------------- commands
\* Lengths (in bytes) of the device codes a user can type.
CodeLengths == {0, 1, 2, 6}

\* SecureStorage::delete("session") (storage.rs:70-80); removed is whether
\* remove_file succeeded.  The callers ignore the result.
delete(entry, removed) == IF removed THEN None ELSE entry

\* SecureStorage::save("session", s) (storage.rs:39-51); written is whether
\* encryption and the write succeeded.
save(entry, s, written) == IF written THEN Some(s) ELSE entry

\* verify_device_code reporting a failure when the session could not be saved.
verify_result_save_checked(ok, written) ==
    IF ok /\ written THEN "ok" ELSE "fail"

\* commands.rs:109-126: the VerifyResult returned: success = true whenever
\* verify_code returned Ok, whatever became of the save.
verify_result(ok, written) == IF ok THEN "ok" ELSE "fail"

\* commands.rs:71-81: verify_device_code up to the await of verify_code.
\* &code[..2] panics on a code shorter than two bytes.
VerifyCall ==
    /\ verify_pc = "idle"
    /\ Len(commands) < MaxCommands
    /\ commands' = Append(commands, "verify")
    /\ \E n \in CodeLengths :
        IF n < 2
        THEN verify_pc' = "idle" /\ verify_out' = "panic"
        ELSE verify_pc' = "await" /\ verify_out' = "none"
    /\ UNCHANGED <<logout_pc, logout_token, hb_pc, hb_out, get_out>>
    /\ UNCHANGED <<readerVars, osVars, loopVars, apiVars, authVars, clientVars, locks>>
    /\ UNCHANGED loop2Vars

\* commands.rs:81-127: verify_code(..).await completes.
VerifyReturn ==
    /\ verify_pc = "await"
    /\ locks.auth = "none"
    /\ \E ok \in BOOLEAN :
        IF ok
        THEN \* Ok(response): set_session under the auth mutex, then save
             /\ \E s \in Sessions, written \in BOOLEAN :
                    /\ session' = Some(s)
                    /\ stored' = save(stored, s, written)
                    /\ verify_out' = verify_result(TRUE, written)
             /\ locks' = AuthGuard(locks, "verify")
        ELSE \* Err(e): success = false
             /\ verify_out' = verify_result(FALSE, FALSE)
             /\ UNCHANGED <<session, stored, locks>>
    /\ verify_pc' = "idle"
    /\ UNCHANGED <<now, logout_pc, logout_token, hb_pc, hb_out, commands, get_out>>
    /\ UNCHANGED <<readerVars, osVars, loopVars, apiVars, clientVars>>
    /\ UNCHANGED loop2Vars

\* commands.rs:132-154: logout up to the await of disconnect; with no token
\* there is no await and the command runs to its end.
LogoutCall ==
    /\ logout_pc = "idle"
    /\ Len(commands) < MaxCommands
    /\ commands' = Append(commands, "logout")
    /\ locks.auth = "none"
    /\ LET token == get_access_token(session, now) IN
        IF token # None
        THEN /\ logout_token' = token
             /\ logout_pc' = "await"
             /\ session' = SessionAfterRead(session, now)
             /\ UNCHANGED stored
        ELSE /\ session' = None
             /\ \E removed \in BOOLEAN : stored' = delete(stored, removed)
             /\ UNCHANGED <<logout_pc, logout_token>>
    /\ locks' = AuthGuard(locks, "logout")
    /\ UNCHANGED <<now, verify_pc, verify_out, hb_pc, hb_out, get_out>>
    /\ UNCHANGED <<readerVars, osVars, loopVars, apiVars, clientVars>>
    /\ UNCHANGED loop2Vars

\* commands.rs:142-153: disconnect(..).await completes (its result is
\* ignored), then clear_session under the auth mutex and delete.
LogoutReturn ==
    /\ logout_pc = "await"
    /\ locks.auth = "none"
    /\ session' = None
    /\ \E removed \in BOOLEAN : stored' = delete(stored, removed)
    /\ logout_pc' = "idle"
    /\ logout_token' = None
    /\ locks' = AuthGuard(locks, "logout")
    /\ UNCHANGED <<now, verify_pc, verify_out, hb_pc, hb_out, commands, get_out>>
    /\ UNCHANGED <<readerVars, osVars, loopVars, apiVars, clientVars>>
    /\ UNCHANGED loop2Vars

\* commands.rs:254-263: send_heartbeat up to the await of the API call; with
\* no token it returns success = false at once.
HeartbeatCall ==
    /\ hb_pc = "idle"
    /\ Len(commands) < MaxCommands
    /\ commands' = Append(commands, "heartbeat")
    /\ locks.auth = "none"
    /\ IF get_access_token(session, now) # None
       THEN hb_pc' = "await" /\ hb_out' = "none"
       ELSE hb_pc' = "idle" /\ hb_out' = "false"
    /\ session' = SessionAfterRead(session, now)
    /\ locks' = AuthGuard(locks, "heartbeat")
    /\ UNCHANGED <<now, stored>>
    /\ UNCHANGED <<verify_pc, verify_out, logout_pc, logout_token, get_out>>
    /\ UNCHANGED <<readerVars, osVars, loopVars, apiVars, clientVars>>
    /\ UNCHANGED loop2Vars

\* commands.rs:263-269: send_heartbeat(..).await completes: the response's
\* success flag, or false on an error.
HeartbeatReturn ==
    /\ hb_pc = "await"
    /\ \E success \in BOOLEAN : hb_out' = IF success THEN "true" ELSE "false"
    /\ hb_pc' = "idle"
    /\ UNCHANGED <<verify_pc, verify_out, logout_pc, logout_token, commands, get_out>>
    /\ UNCHANGED <<readerVars, osVars, loopVars, apiVars, authVars, clientVars, locks>>
    /\ UNCHANGED loop2Vars

\* commands.rs:39-67: get_stored_session, called once when the window
\* opens.  readable is whether the file is read, decrypted and parsed.
GetStoredSession ==
    /\ get_out = None
    /\ locks.auth = "none"
    /\ \E readable \in BOOLEAN, removed \in BOOLEAN :
        LET loaded == stored # None /\ readable IN
        IF loaded
        THEN IF is_expired(stored[1], now)
             THEN /\ stored' = delete(stored, removed)
                  /\ get_out' = Some(<<loaded, None>>)
                  /\ UNCHANGED <<session, locks>>
             ELSE /\ session' = stored
                  /\ locks' = AuthGuard(locks, "stored")
                  /\ get_out' = Some(<<loaded, Some(stored[1].access_token)>>)
                  /\ UNCHANGED stored
        ELSE /\ get_out' = Some(<<loaded, None>>)
             /\ UNCHANGED <<session, stored, locks>>
    /\ UNCHANGED <<now>>
    /\ UNCHANGED <<verify_pc, verify_out, logout_pc, logout_token, hb_pc, hb_out, commands>>
    /\ UNCHANGED <<readerVars, osVars, loopVars, apiVars, clientVars, loop2Vars>>

\* ------------------------------------------- the loop against any reader
\* Snapshots a TelemetryState can hold (telemetry.rs:36-42).
TelemetryStates ==
    [connected : BOOLEAN, game : {None}, speed : {0},
     current_city : {None}, active_job : {None}]

\* commands.rs:180-192 with update() taken by its signature alone
\* (telemetry.rs:176): it may return any Option<TelemetryEvent> and leave any
\* TelemetryState.  The dispatch code of the loop is checked against this.
LoopUpdateAny ==
    /\ pc = "tick"
    /\ ticks < MaxAnyTicks
    /\ locks.telemetry = "none"
    /\ \E r \in OptionEvent, st \in TelemetryStates :
        /\ state' = st
        /\ ret' = r
        /\ event_to_emit' = TickEvent(event_to_emit, r)
        /\ telemetry_data' = Snapshot(telemetry_data, st)
    /\ locks' = TelemetryGuard(locks, "loop")
    /\ ticks' = ticks + 1
    /\ pc' = "emit"
    /\ UNCHANGED <<map_handle, map_view, job_started, emitted>>
    /\ UNCHANGED <<osVars, apiVars, authVars, cmdVars, clientVars>>
    /\ UNCHANGED loop2Vars

\* A command replaces or clears the session of the AuthManager
\* (set_session, auth.rs:37-40; clear_session, auth.rs:65-68).
SessionChange ==
    /\ \E s \in ({None} \cup {Some(x) : x \in Sessions}) \ {session} : session' = s
    /\ UNCHANGED <<now, stored>>
    /\ UNCHANGED <<readerVars, osVars, loopVars, apiVars, cmdVars, clientVars, locks>>
    /\ UNCHANGED loop2Vars

\* --------------------------------------------------------- specifications
\* The telemetry acquisition as shipped: the reader, the loop that drives it
\* and the operating system.
Next ==
    \/ OsChange
    \/ ProducerWrite
    \/ StartTelemetry
    \/ LoopUpdate
    \/ LoopEmit
    \/ LoopHandle

Spec == Init /\ [][Next]_vars

\* The poll/dispatch loop and the session commands, against any reader.
NextLoop ==
    \/ StartTelemetry
    \/ LoopUpdateAny
    \/ LoopEmit
    \/ LoopHandle
    \/ SubmitReturn
    \/ Clock
    \/ SessionChange

SpecLoop == Init /\ [][NextLoop]_vars

\* The reader under its whole public API: the loop's ticks, direct calls of
\* connect(), and the release of the reader.
NextReader ==
    \/ OsChange
    \/ ProducerWrite
    \/ StartTelemetry
    \/ LoopUpdate
    \/ LoopEmit
    \/ LoopHandle
    \/ CallConnect
    \/ Cleanup

SpecReader == Init /\ [][NextReader]_vars

\* The application's tasks side by side: the loop (against any reader) and
\* the commands that use the auth mutex and the network.
NextApp ==
    \/ StartTelemetry
    \/ LoopUpdateAny
    \/ LoopEmit
    \/ LoopHandle
    \/ SubmitReturn
    \/ Clock
    \/ VerifyCall
    \/ VerifyReturn
    \/ LogoutCall
    \/ LogoutReturn
    \/ HeartbeatCall
    \/ HeartbeatReturn
    \/ GetStoredSession

SpecApp == Init /\ [][NextApp]_vars

\* The telemetry acquisition with start_telemetry invoked twice.
NextTwoLoops ==
    \/ OsChange
    \/ ProducerWrite
    \/ StartTelemetry
    \/ LoopUpdate
    \/ LoopEmit
    \/ LoopHandle
    \/ StartTelemetry2
    \/ Loop2Update
    \/ Loop2Emit
    \/ Loop2Handle

SpecTwoLoops == Init /\ [][NextTwoLoops]_vars

\* The session commands alone, started with or without a session left in the
\* secure storage by an earlier run.
NextAuth ==
    \/ Clock
    \/ GetStoredSession
    \/ VerifyCall
    \/ VerifyReturn
    \/ LogoutCall
    \/ LogoutReturn
    \/ HeartbeatCall
    \/ HeartbeatReturn

SpecAuth == InitAuth /\ [][NextAuth]_vars

\* ================================================================ claims
\* A step in which the loop ran update() (commands.rs:187-192).
UpdateStep == pc = "tick" /\ pc' = "emit"
\* A step in which the loop matched on the tick's event (commands.rs:202-245).
HandleStep == pc = "handle" /\ pc' # "handle"
\* A step in which the awaited submit_job returned.
ReturnStep == results' # results

C4_JobStartedOnJobFields ==
    [][(UpdateStep /\ state.connected /\ state.active_job = None
            /\ os = "ok" /\ mem_job # None)
        => /\ ret' = Some(EvJobStarted)
           /\ state'.active_job # None]_vars

\* C5 (as claimed): while connected with a job in progress (the job the
\* previous read showed), a tick whose read shows the job fields absent
\* returns JobCompleted with that job and leaves active_job None.
C5_JobCompletedCarriesLastJob ==
    [][(UpdateStep /\ state.connected /\ last_read # None /\ mem_job = None)
        => /\ ret' = Some(EvJobCompleted(last_read[1]))
           /\ state'.active_job = None]_vars

\* C6: submit_job is invoked in a step if and only if the step handles a tick
\* whose update() returned JobCompleted while get_access_token yields a token;
\* the call carries that job and token; any other event, or a missing token,
\* ends the iteration with no call and nothing in flight.
C6_SubmitIffCompletedWithToken ==
    [][/\ (api_calls' # api_calls) <=>
            /\ HandleStep
            /\ ret # None /\ ret[1][1] = "JobCompleted"
            /\ get_access_token(session, now) # None
       /\ (api_calls' # api_calls) =>
            /\ api_calls' = Append(api_calls,
                    [op |-> "submit_job", token |-> session[1].access_token,
                     job |-> ret[1][2], tick |-> ticks])
            /\ in_flight' # None
       /\ (HandleStep /\ api_calls' = api_calls) =>
            /\ pc' = "tick"
            /\ in_flight' = None]_vars

\* C6 witness: tick 1's completed job was submitted, and tick 2's completed
\* job, handled with no token, was dropped.
C6_Witness ==
    /\ pc = "tick" /\ ticks = 2
    /\ ret = Some(EvJobCompleted("J2"))
    /\ Len(api_calls) = 1 /\ api_calls[1].tick = 1 /\ api_calls[1].job = "J1"
    /\ get_access_token(session, now) = None

\* C7 (as claimed): while a submission is in flight the loop can still run
\* the next tick's update().
C7_TickWhileSubmitInFlight ==
    (in_flight # None /\ ticks < MaxAnyTicks) => ENABLED LoopUpdateAny

\* C8: when submit_job returns an error the call is not made again, the
\* iteration ends (the loop waits for the next tick), and the reader is left
\* exactly as a successful return leaves it: untouched.
C8_SubmitErrorSwallowed ==
    [][ReturnStep
        => /\ api_calls' = api_calls
           /\ in_flight' = None
           /\ pc' = "tick"
           /\ readerVars' = readerVars]_vars

\* C8 witness: a submission made in tick 1 failed and the loop went on to
\* tick 2.
C8_Witness ==
    /\ Len(results) = 1 /\ results[1] \in {"Network", "Server", "Parse"}
    /\ Len(api_calls) = 1 /\ api_calls[1].tick = 1
    /\ ticks = 2 /\ pc = "handle"

\* C9: update() returns at most one event, and the event a tick handles is
\* the one update() returned in that very tick: none when it returned none,
\* whatever earlier ticks returned.
C9_OneEventPerTick ==
    /\ ret \in OptionEvent
    /\ Len(ret) <= 1
    /\ pc \in {"emit", "handle"} => event_to_emit = ret

\* C9 witness: the tick after the one that returned Connected returned no
\* event and handles none.
C9_Witness ==
    /\ ticks >= 2 /\ pc = "handle"
    /\ state.connected /\ state.game = Some("Ets2")
    /\ ret = None /\ event_to_emit = None

\* C10: a tick of a disconnected reader while the named mapping is absent
\* returns no event and leaves the reader disconnected, holding no handle and
\* no view, with no handle left open.
C10_AbsentStaysDisconnected ==
    [][(UpdateStep /\ ~state.connected /\ os = "absent")
        => /\ ret' = None
           /\ ~state'.connected
           /\ IsInvalid(map_handle')
           /\ map_view' = NullView
           /\ os_handles' = os_handles
           /\ os_views' = os_views]_vars

\* C10 witness: three ticks have run and every snapshot published so far is
\* disconnected, the mapping being absent.
C10_Witness ==
    /\ ticks >= 3 /\ pc = "handle" /\ os = "absent"
    /\ ret = None /\ ~state.connected
    /\ IsInvalid(map_handle) /\ map_view = NullView
    /\ Len(emitted) >= 3
    /\ \A i \in 1..Len(emitted) : ~emitted[i].data.connected

\* The reader holds the mapping (telemetry.rs:112: handle valid, view non-null).
Held == ~IsInvalid(map_handle) /\ map_view # NullView
\* A step in which connect() was called directly.
ConnectStep == connect_log' # connect_log
\* A step in which cleanup() ran.
CleanupStep == cleanups' # cleanups
\* The event is a Connected(game).
IsConnectedEvent(r) == r # None /\ r[1][1] = "Connected"

\* C11: a tick of a disconnected reader at which the mapping is available
\* returns Connected(Ets2) and leaves the state connected; a tick of a
\* connected reader returns no Connected and leaves the state connected; so
\* Connected is returned only by the tick that makes the connection.
C11_ConnectedExactlyOnce ==
    [][UpdateStep
        => /\ (~state.connected /\ os = "ok")
                => /\ ret' = Some(EvConnected("Ets2"))
                   /\ state'.connected
                   /\ state'.game = Some("Ets2")
           /\ state.connected
                => /\ ~IsConnectedEvent(ret')
                   /\ state'.connected
           /\ IsConnectedEvent(ret') => (~state.connected /\ os = "ok")]_vars

\* C11 witness: the mapping appeared for tick 2; tick 1 published a
\* disconnected snapshot, tick 2 a connected one, and tick 3, with the mapping
\* still there, returned no event and stayed connected.
C11_Witness ==
    /\ pc = "handle" /\ ticks = 3 /\ os = "ok"
    /\ Len(emitted) = 3
    /\ ~emitted[1].data.connected
    /\ emitted[2].data.connected
    /\ emitted[3].data.connected
    /\ ret = None /\ state.connected

\* C12: as long as the reader has not been dropped, state.connected is true
\* exactly when the reader holds a valid handle and a non-null view.
C12_ConnectedIffHeld ==
    cleanups = 0 => (state.connected <=> Held)

\* C12 witness: a live reader that connected in a tick and was then asked to
\* connect() again holds its mapping and is connected, the producer being
\* gone by now.
C12_Witness ==
    /\ cleanups = 0 /\ state.connected /\ Held
    /\ state.game = Some("Ets2")
    /\ Len(connect_log) >= 1
    /\ os = "absent"

\* C14: a direct connect() on a reader that holds a valid handle and a
\* non-null view returns true, opens and maps nothing, and leaves the handle,
\* the view and the TelemetryState as they were.
C14_ConnectWhileHeldIsNoOp ==
    [][(ConnectStep /\ Held)
        => /\ connect_log'[Len(connect_log')].ok
           /\ state' = state
           /\ map_handle' = map_handle
           /\ map_view' = map_view
           /\ os_handles' = os_handles
           /\ os_views' = os_views]_vars

\* C14 witness: connect() was called twice on a reader holding its mapping,
\* once with the producer running and once with it gone; both calls returned
\* true and one handle and one view are open.
C14_Witness ==
    /\ Len(connect_log) = 2
    /\ connect_log[1] = [os |-> "ok", held |-> TRUE, ok |-> TRUE]
    /\ connect_log[2] = [os |-> "absent", held |-> TRUE, ok |-> TRUE]
    /\ Cardinality(os_handles) = 1 /\ Cardinality(os_views) = 1
    /\ Held

\* C15: a connect() that fails (the open fails, the handle opened is invalid,
\* or the view cannot be mapped), called directly or by a tick, returns false,
\* leaves open no handle or view it opened, leaves the reader holding none,
\* and leaves connected false.
C15_FailedConnectLeavesNothing ==
    [][((ConnectStep \/ (UpdateStep /\ ~state.connected))
            /\ ~Held /\ os \in {"absent", "invalid", "nomap"})
        => /\ ConnectStep => ~connect_log'[Len(connect_log')].ok
           /\ UpdateStep => ret' = None
           /\ os_handles' = os_handles
           /\ os_views' = os_views
           /\ IsInvalid(map_handle')
           /\ map_view' = NullView
           /\ ~state'.connected]_vars

\* C15 witness: two direct calls failed, one at the mapping of the view and
\* one at the open, and the reader holds nothing with nothing open.
C15_Witness ==
    /\ Len(connect_log) = 2
    /\ connect_log[1] = [os |-> "nomap", held |-> FALSE, ok |-> FALSE]
    /\ connect_log[2] = [os |-> "invalid", held |-> FALSE, ok |-> FALSE]
    /\ ~Held /\ ~state.connected
    /\ os_handles = {} /\ os_views = {}

\* C16: every run of cleanup() leaves the reader holding no handle and no
\* view and nothing open; a run after the first makes no release call and
\* changes nothing; over all runs the view is unmapped at most once and the
\* handle closed at most once, the view first.
C16_CleanupIdempotent ==
    [][CleanupStep
        => /\ IsInvalid(map_handle') /\ map_view' = NullView
           /\ os_handles' = {} /\ os_views' = {}
           /\ cleanups >= 1
                => /\ os_log' = os_log
                   /\ readerVars' = readerVars
                   /\ os_handles' = os_handles /\ os_views' = os_views
           /\ (cleanups = 0 /\ Held)
                => os_log' = <<<<"UnmapViewOfFile", map_view>>,
                               <<"CloseHandle", map_handle>>>>
           /\ (cleanups = 0 /\ ~Held) => os_log' = <<>>]_vars

\* C16 witness: a connected reader was released twice; the view was unmapped
\* once and then the handle closed once, and nothing is open.
C16_Witness ==
    /\ cleanups = 2
    /\ Len(os_log) = 2
    /\ os_log[1][1] = "UnmapViewOfFile" /\ os_log[2][1] = "CloseHandle"
    /\ state.game = Some("Ets2")
    /\ IsInvalid(map_handle) /\ map_view = NullView
    /\ os_handles = {} /\ os_views = {}

\* C17: while the loop publishes a snapshot or awaits submit_job it holds
\* neither mutex, and while verify_device_code, logout or send_heartbeat
\* awaits its network call (verify_code, disconnect, send_heartbeat) it holds
\* neither mutex.
C17_NoLockAcrossIo ==
    /\ pc \in {"emit", "await"}
        => locks.telemetry # "loop" /\ locks.auth # "loop"
    /\ verify_pc = "await"
        => locks.telemetry # "verify" /\ locks.auth # "verify"
    /\ logout_pc = "await"
        => locks.telemetry # "logout" /\ locks.auth # "logout"
    /\ hb_pc = "await"
        => locks.telemetry # "heartbeat" /\ locks.auth # "heartbeat"
    /\ locks.telemetry \in Holders /\ locks.auth \in Holders

\* C17 witness: the loop awaits submit_job, having read the token under the
\* auth mutex, while logout awaits disconnect, and both mutexes are free.
C17_Witness ==
    /\ pc = "await" /\ in_flight # None
    /\ logout_pc = "await" /\ logout_token # None
    /\ locks = [telemetry |-> "none", auth |-> "none"]

\* C18: snapshots are published one per tick in tick order; the snapshot of
\* tick N is the state tick N's update() left; when the next update() can run
\* the snapshot of every earlier tick is published and no submission of an
\* earlier tick is in flight; submissions are made in tick order.
C18_SnapshotsInTickOrder ==
    /\ Len(emitted) = IF pc = "emit" THEN ticks - 1 ELSE ticks
    /\ \A i \in 1..Len(emitted) : emitted[i].tick = i
    /\ pc = "emit" => telemetry_data = Some(state)
    /\ (pc # "emit" /\ ticks >= 1) => emitted[ticks].data = state
    /\ pc = "tick" => in_flight = None
    /\ \A i \in 1..Len(api_calls) :
        /\ api_calls[i].tick <= ticks
        /\ i > 1 => api_calls[i - 1].tick < api_calls[i].tick
    /\ pc \in {"emit", "handle"} => \A i \in 1..Len(api_calls) : api_calls[i].tick < ticks

\* C18 witness: two ticks left different states; both snapshots were
\* published in order, and the completed job of each tick was submitted in
\* order before the next tick.
C18_Witness ==
    /\ pc = "tick" /\ ticks = 2
    /\ Len(emitted) = 2
    /\ emitted[1].data # emitted[2].data
    /\ Len(api_calls) = 2
    /\ api_calls[1].tick = 1 /\ api_calls[2].tick = 2

\* C19 (as claimed): a tick of a connected reader whose read shows implausible
\* header values returns Disconnected and leaves connected false.
C19_ImplausibleHeaderDisconnects ==
    [][(UpdateStep /\ state.connected /\ map_view # NullView
            /\ mem_header = "implausible")
        => /\ ret' = Some(EvDisconnected)
           /\ ~state'.connected]_vars

\* C20: no step of the loop (start, update, publish, handle, and the return
\* of submit_job) changes the session of the AuthManager or the stored one.
C20_LoopLeavesSession ==
    [][(pc' # pc \/ ReturnStep)
        => /\ session' = session
           /\ stored' = stored]_vars

\* C20 witness: a tick handled JobCompleted with a token, submit_job returned,
\* and the session that gave the token is still the session.
C20_Witness ==
    /\ pc = "tick" /\ ticks = 1
    /\ ret = Some(EvJobCompleted("J1"))
    /\ Len(api_calls) = 1 /\ Len(results) = 1
    /\ session # None
    /\ session[1].access_token = api_calls[1].token

\* A step in which the named command was invoked.
InvokeStep(name) == commands' = Append(commands, name)
\* A step in which logout's await of disconnect completed.
LogoutReturnStep == logout_pc = "await" /\ logout_pc' = "idle"
\* A step in which verify_device_code's await of verify_code completed.
VerifyReturnStep == verify_pc = "await" /\ verify_pc' = "idle"
\* A step in which get_stored_session ran.
GetStoredStep == get_out = None /\ get_out' # None
\* A session is set and the time is strictly before its expires_at.
Unexpired(sess, t) == sess # None /\ t < sess[1].expires_at

\* C21: get_access_token reports a token, the session's own, and
\* is_authenticated reports true, exactly when a session is set and the time
\* is strictly before its expires_at; a command that asks for the token
\* (send_heartbeat) goes on to the network exactly then, and leaves the
\* session, expired or not, where it is.
C21_TokenIffUnexpired ==
    [][/\ get_access_token(session, now) # None <=> Unexpired(session, now)
       /\ is_authenticated(session, now) <=> Unexpired(session, now)
       /\ get_access_token(session', now') # None <=> Unexpired(session', now')
       /\ is_authenticated(session', now') <=> Unexpired(session', now')
       /\ Unexpired(session, now)
            => get_access_token(session, now) = Some(session[1].access_token)
       /\ InvokeStep("heartbeat")
            => /\ hb_pc' = "await" <=> Unexpired(session, now)
               /\ session' = session
               /\ stored' = stored]_vars

\* C21 witness: the session is set and the time has reached its expires_at;
\* send_heartbeat has answered success = false without a call in progress,
\* and the session is still there.
C21_Witness ==
    /\ session # None /\ now >= session[1].expires_at
    /\ get_access_token(session, now) = None
    /\ commands = <<"heartbeat">>
    /\ hb_pc = "idle" /\ hb_out = "false"

\* C22 (as claimed): logout awaits disconnect exactly when a valid token
\* existed, with the session still in place while it waits; and when logout
\* returns, with or without that await, the session is gone from the
\* AuthManager and the stored entry is gone from the storage.
C22_LogoutClearsAndDeletes ==
    [][/\ InvokeStep("logout")
            => /\ logout_pc' = "await" <=> get_access_token(session, now) # None
               /\ logout_pc' = "await"
                    => /\ session' = session
                       /\ logout_token' = get_access_token(session, now)
       /\ ((InvokeStep("logout") /\ logout_pc' = "idle") \/ LogoutReturnStep)
            => /\ session' = None
               /\ stored' = None]_vars

\* C23 (as claimed): get_stored_session installs the stored session, and
\* returns it, exactly when it loads and is not expired; when it loads and is
\* expired the stored entry is deleted, None is returned and the AuthManager
\* is unchanged; when it does not load None is returned and nothing changes.
C23_StoredSessionInstalledIfValid ==
    [][GetStoredStep
        => LET loaded == get_out'[1][1]
               returned == get_out'[1][2]
           IN /\ session' # session
                    => /\ loaded
                       /\ ~is_expired(stored[1], now)
              /\ (loaded /\ ~is_expired(stored[1], now))
                    => /\ session' = stored
                       /\ stored' = stored
                       /\ returned = Some(stored[1].access_token)
              /\ (loaded /\ is_expired(stored[1], now))
                    => /\ stored' = None
                       /\ returned = None
                       /\ session' = session
              /\ ~loaded
                    => /\ returned = None
                       /\ session' = session
                       /\ stored' = stored]_vars

\* C24: when verify_code fails verify_device_code answers success = false and
\* leaves the session and the stored session as they were; when it succeeds
\* the response's session is installed and the answer is success = true,
\* whether the save wrote the stored entry or left it as it was.
C24_VerifyOutcome ==
    [][VerifyReturnStep
        => /\ verify_out' \in {"ok", "fail"}
           /\ verify_out' = "fail"
                => /\ session' = session
                   /\ stored' = stored
           /\ verify_out' = "ok"
                => /\ session' # None
                   /\ session'[1] \in Sessions
                   /\ stored' = session' \/ stored' = stored]_vars

\* C24 witness: the only command run so far is a verification that
\* succeeded; its session is installed and nothing is stored, the save
\* having failed.
C24_Witness ==
    /\ commands = <<"verify">> /\ get_out = None
    /\ verify_pc = "idle" /\ verify_out = "ok"
    /\ session # None
    /\ stored = None

\* C25 (as claimed): when a logout that was invoked before the latest
\* verification completes its await, the session that verification installed
\* stays in the AuthManager.
C25_EarlierLogoutKeepsNewSession ==
    [][(/\ LogoutReturnStep
        /\ Len(commands) >= 2
        /\ commands[Len(commands)] = "verify"
        /\ \E i \in 1..(Len(commands) - 1) : commands[i] = "logout"
        /\ verify_pc = "idle" /\ verify_out = "ok"
        /\ Unexpired(session, now))
        => session' = session]_vars

\* C26 (as claimed): with two loops running, at most one of them has had
\* Connected returned for a connection, and no snapshot is published after a
\* newer one: the reader as shipped only ever goes from disconnected to
\* connected, so no disconnected snapshot follows a connected one.
C26_TwoLoopsPublishInOrder ==
    /\ ~(IsConnectedEvent(ret) /\ IsConnectedEvent(ret2))
    /\ \A i, j \in 1..Len(emitted) :
        (i < j /\ emitted[i].data.connected) => emitted[j].data.connected

\* C27 (as claimed): whatever connect() and update() calls were made, a
\* connected reader has a game, which update() sets in the call that returns
\* Connected.
C27_ConnectedHasGame ==
    state.connected => state.game # None

\* C28: in the reader's state, in the copy the loop holds and in every
\* snapshot published, speed is 0, current_city is None and active_job is
\* None, whatever the mapped memory shows.
C28_NoProducerValueExposed ==
    LET Blank(st) == st.speed = 0 /\ st.current_city = None /\ st.active_job = None
    IN /\ Blank(state)
       /\ telemetry_data # None => Blank(telemetry_data[1])
       /\ \A i \in 1..Len(emitted) : Blank(emitted[i].data)

\* C28 witness: a connected reader has copied from a view in which the
\* producer shows a job and implausible header values, and the snapshot just
\* published is connected and blank.
C28_Witness ==
    /\ pc = "handle" /\ ticks >= 2
    /\ state.connected
    /\ last_read # None /\ mem_job # None
    /\ mem_header = "implausible"
    /\ emitted[Len(emitted)].data.connected
    /\ emitted[Len(emitted)].data.speed = 0
    /\ emitted[Len(emitted)].data.active_job = None

\* C29 (as claimed): verify_device_code, invoked with any code, goes on to
\* the verification request; it does not panic.
C29_VerifyNeverAborts ==
    [][InvokeStep("verify")
        => /\ verify_pc' = "await"
           /\ verify_out' # "panic"]_vars

====
